---------------------------- MODULE Spec2Model ----------------------------
(***************************************************************************)
(* Model of book_manager.provider.DataProvider: the initialise exchange,   *)
(* the loadPage exchange with its two-level chunk reassembly, the content  *)
(* cache and its snapshot file, and the fetch_contents generator that      *)
(* drives them over one websocket.                                         *)
(*                                                                         *)
(* Strings are modelled as sequences of tokens, so that concatenation is   *)
(* sequence concatenation and every fragment stays distinguishable.        *)
(***************************************************************************)
EXTENDS Integers, Sequences, FiniteSets, TLC

VARIABLES
    pc,                         \* position of the fetch_contents generator
    outcome,                    \* how the generator ended: "none" while running
    error,                      \* <<code, message>> of the raised server error
    file,                       \* chunks.dat: [exists, data (textual key -> text)]
    content_cache,              \* fetch_contents: content_cache
    flushes,                    \* number of times the finally block wrote chunks.dat
    channel,                    \* websocket, server to client: a FIFO of answers,
                                \* each the set of its messages not received yet
    sent,                       \* every request the client sent, in order
    unanswered,                 \* number of requests the server has not answered yet
    chunk_info,                 \* initialize: chunk_info
    book_chapter_meta,          \* fetch_contents: book_chapter_meta
    chapter_idx,                \* position of the outer loop in sorted_chapter_meta
    part_no,                    \* position of the inner loop
    page_content,               \* load_page: page_content
    merged_chapter_chunk_sizes, \* load_page: merged_chapter_chunk_sizes
    yielded,                    \* every tuple the generator yielded, in order
    resp,                       \* the chunk messages the server sent for the last loadPage
    rcvd,                       \* the chunk messages load_page consumed in the last exchange
    ret,                        \* <<text>> once the last load_page call returned text
    loaded,                     \* the cache as ReadCache found it at session start
    described,                  \* the BookChapterMetadata the server described
    session,                    \* 1 in the first call of fetch_contents, 2 in a second one
    earlier,                    \* what the first call yielded and how many units it fetched
    served,                     \* what a deviating server recorded about its latest answer
    cipher                      \* auth.py: the inputs and results of encrypt and decrypt

vars == <<pc, outcome, error, file, content_cache, flushes, channel, sent,
          unanswered, chunk_info, book_chapter_meta, chapter_idx, part_no,
          page_content, merged_chapter_chunk_sizes, yielded, resp, rcvd, ret, loaded, described,
          session, earlier, served, cipher>>

\* the variables that no step of a single well-served session changes
aside == <<session, earlier, served, cipher>>

---------------------------------------------------------------------------
(* Bounds of the model *)

\* largest key of bookMap / largest numberOfChapters the server describes
MaxChapter == 2
\* longest list a bookMap entry holds
MaxExtra == 1
\* most chunks one merged group (or the initialise response) is cut into
MaxChunks == 2
\* most merged groups one loadPage response holds
MaxGroups == 2
\* largest unit index a snapshot of an earlier session holds
MaxCached == 2

\* Python's None for the optional int fields of PageLoadCommandChunk
None == -1

---------------------------------------------------------------------------
(* dict helpers *)

EmptyDict == << >>

Put(d, k, v) == [x \in (DOMAIN d) \cup {k} |-> IF x = k THEN v ELSE d[x]]

Min(S) == CHOOSE x \in S : \A y \in S : x <= y

RECURSIVE SortedKeys(_)
\* sorted(d.items()): the keys in ascending order
SortedKeys(S) ==
    IF S = {} THEN << >>
    ELSE LET m == Min(S) IN <<m>> \o SortedKeys(S \ {m})

RECURSIVE Concat(_)
\* "".join(seq_of_strings)
Concat(ss) ==
    IF ss = << >> THEN << >> ELSE Head(ss) \o Concat(Tail(ss))

\* "".join(map(itemgetter(1), sorted(d.items())))
JoinSorted(d) ==
    LET ks == SortedKeys(DOMAIN d)
    IN  Concat([i \in 1..Len(ks) |-> d[ks[i]]])

RECURSIVE SumSeq(_)
SumSeq(s) == IF s = << >> THEN 0 ELSE Head(s) + SumSeq(Tail(s))

---------------------------------------------------------------------------
(* Wire messages, server to client.  One record shape for every message:   *)
(* event is the event name, cut into the fixed part and the characters     *)
(* after it (digits are 0..9, any other character is a number above 9).    *)

Event(name, suffix) == [name |-> name, suffix |-> suffix]

ErrorEvent == Event("error", << >>)
InitChunkEvent == Event("initialisationDataChunk", << >>)

\* {event: "pageChunk-<n>", data: {numberOfChunks, chunkNumber,
\*  mergedChapterNumber, numberOfMergedChapters, content}}
PageChunkMsg(suffix, nchunks, chunk, group, ngroups, content) ==
    [event |-> Event("pageChunk-", suffix),
     numberOfChunks |-> nchunks, chunkNumber |-> chunk,
     mergedChapterNumber |-> group, numberOfMergedChapters |-> ngroups,
     content |-> content, code |-> 0, message |-> ""]

\* {event: "initialisationDataChunk", data: {numberOfChunks, chunkNumber, content}}
InitChunkMsg(nchunks, chunk, content) ==
    [event |-> InitChunkEvent,
     numberOfChunks |-> nchunks, chunkNumber |-> chunk,
     mergedChapterNumber |-> None, numberOfMergedChapters |-> None,
     content |-> content, code |-> 0, message |-> ""]

\* {event: "error", data: {code, message}}
ErrorMsg(code, message) ==
    [event |-> ErrorEvent,
     numberOfChunks |-> 0, chunkNumber |-> 0,
     mergedChapterNumber |-> None, numberOfMergedChapters |-> None,
     content |-> << >>, code |-> code, message |-> message]

\* re.match(r"^pageChunk-\d+$", event)
validate_event(event) ==
    /\ event.name = "pageChunk-"
    /\ Len(event.suffix) >= 1
    /\ \A i \in 1..Len(event.suffix) : event.suffix[i] \in 0..9

\* TypeAdapter(ErrorResponse | InitCommandResponse).validate_json
ParseInitResponse(m) ==
    IF m.event = ErrorEvent THEN "ErrorResponse"
    ELSE IF m.event = InitChunkEvent THEN "InitCommandResponse"
    ELSE "ValidationError"

\* ParsePageResponse without the ErrorResponse member of the union and with
\* no check of the event name: every message is taken for a chunk
ParsePageResponseChunkOnly(m) == "LoadPageCommandResponse"

\* TypeAdapter(ErrorResponse | LoadPageCommandResponse).validate_json
ParsePageResponse(m) ==
    IF m.event = ErrorEvent THEN "ErrorResponse"
    ELSE IF validate_event(m.event) THEN "LoadPageCommandResponse"
    ELSE "ValidationError"

\* PageLoadCommandChunk: the model's fields, each read from its validation
\* alias.  total_merged_chapter_num is read from mergedChapterNumber and
\* merged_chapter_num from numberOfMergedChapters, as the class declares.
PageLoadCommandChunk(m) ==
    [total_chunk_num |-> m.numberOfChunks,
     chunk_num |-> m.chunkNumber,
     total_merged_chapter_num |-> m.mergedChapterNumber,
     merged_chapter_num |-> m.numberOfMergedChapters,
     content |-> m.content]

\* InitCommandResponseChunk
InitCommandResponseChunk(m) ==
    [total_chunk_num |-> m.numberOfChunks,
     chunk_num |-> m.chunkNumber,
     content |-> m.content]

---------------------------------------------------------------------------
(* load_page: the body of the receive loop for one chunk message, on the   *)
(* local state st = [page_content, merged_chapter_chunk_sizes].            *)

LoadPageAccumulate(st, m) ==
    LET chunk_data == PageLoadCommandChunk(m)
        key == chunk_data.merged_chapter_num
        merged_chapter_content ==
            IF key \in DOMAIN st.page_content
            THEN st.page_content[key] ELSE EmptyDict
    IN  [page_content |->
            Put(st.page_content, key,
                Put(merged_chapter_content, chunk_data.chunk_num, chunk_data.content)),
         merged_chapter_chunk_sizes |->
            Put(st.merged_chapter_chunk_sizes, key, chunk_data.total_chunk_num)]

\* LoadPageIncomplete that lets the first chunk end the loop
LoadPageFirstChunkEnds(st, m) == FALSE

\* the two `continue` tests after the accumulation; st is the state after it
LoadPageIncomplete(st, m) ==
    LET chunk_data == PageLoadCommandChunk(m)
        total_merged_chapter_num ==
            IF chunk_data.total_merged_chapter_num # None
            THEN chunk_data.total_merged_chapter_num ELSE 1
    IN  \/ Cardinality(DOMAIN st.page_content) < total_merged_chapter_num
        \/ \E chapter_no \in DOMAIN st.page_content :
              Cardinality(DOMAIN st.page_content[chapter_no])
                  < st.merged_chapter_chunk_sizes[chapter_no]

\* full_content: groups in ascending key order, chunks in ascending order
LoadPageFullContent(pcont) ==
    LET ks == SortedKeys(DOMAIN pcont)
    IN  Concat([i \in 1..Len(ks) |-> JoinSorted(pcont[ks[i]])])

---------------------------------------------------------------------------
(* BookChapterMetadata and the text the initialise exchange carries.       *)
(* bookMap is optional: hasBookMap = FALSE stands for book_map is None.    *)

BookMeta(ntotal, has, bmap) ==
    [bookType |-> "EPUB", numberOfChapters |-> ntotal,
     hasBookMap |-> has, bookMap |-> bmap]

NoMeta == BookMeta(0, FALSE, EmptyDict)

\* BookChapterMetadata.chapter_lengths
chapter_lengths(meta) ==
    IF ~meta.hasBookMap
    THEN [i \in 1..meta.numberOfChapters |-> 1]
    ELSE [key \in DOMAIN meta.bookMap |-> Len(meta.bookMap[key]) + 1]

\* sorted(book_chapter_meta.chapter_lengths.items())
sorted_chapter_meta(meta) ==
    LET cl == chapter_lengths(meta)
        ks == SortedKeys(DOMAIN cl)
    IN  [i \in 1..Len(ks) |-> <<ks[i], cl[ks[i]]>>]

\* sum(map(itemgetter(1), sorted_chapter_meta))
num_parts(meta) ==
    LET scm == sorted_chapter_meta(meta)
    IN  SumSeq([i \in 1..Len(scm) |-> scm[i][2]])

\* part_ind = chapter + part_no
part_ind(chapter, part) == chapter + part

\* JSON text: a sequence of tokens.  An object is { body }.  A JSON string
\* holding a text is " text ", with every quote of the text escaped once
\* more: esc says how many times a quote is escaped.
Tok(ch) == [ch |-> ch, meta |-> NoMeta, esc |-> 0]
BodyTok(meta) == [ch |-> "body", meta |-> meta, esc |-> 0]

\* json.dumps escapes the quotes of a str
Escape(text) ==
    [i \in 1..Len(text) |->
        IF text[i].ch = "quote" THEN [text[i] EXCEPT !.esc = @ + 1] ELSE text[i]]

\* json.loads takes one escape off the quotes of a JSON string
Unescape(text) ==
    [i \in 1..Len(text) |->
        IF text[i].ch = "quote" THEN [text[i] EXCEPT !.esc = @ - 1] ELSE text[i]]

JsonObject(meta) == <<Tok("{"), BodyTok(meta), Tok("}")>>
JsonString(text) == <<Tok("quote")>> \o Escape(text) \o <<Tok("quote")>>

RECURSIVE Encoded(_, _)
\* the description of meta as JSON text, in extra layers of JSON string
Encoded(meta, extra) ==
    IF extra = 0 THEN JsonObject(meta) ELSE JsonString(Encoded(meta, extra - 1))

IsJsonObject(text) ==
    /\ Len(text) = 3
    /\ text[1].ch = "{" /\ text[2].ch = "body" /\ text[3].ch = "}"

IsJsonString(text) ==
    /\ Len(text) >= 2
    /\ text[1].ch = "quote" /\ text[1].esc = 0
    /\ text[Len(text)].ch = "quote" /\ text[Len(text)].esc = 0
    /\ \A i \in 2..(Len(text) - 1) : text[i].ch = "quote" => text[i].esc > 0

\* ParseBookChapterMetadata without the before-validator: the text must be
\* an object
ParseSingleEncoded(text) ==
    IF IsJsonObject(text) THEN [ok |-> TRUE, meta |-> text[2].meta]
    ELSE [ok |-> FALSE, meta |-> NoMeta]

\* BookChapterMetadata.model_validate_json with the before-validator
\* remove_double_encoding: a decoded str is json.loads-ed once more, and the
\* result must then be an object.
ParseBookChapterMetadata(text) ==
    LET data == Unescape(SubSeq(text, 2, Len(text) - 1))
    IN  IF IsJsonObject(text) THEN [ok |-> TRUE, meta |-> text[2].meta]
        ELSE IF IsJsonString(text) /\ IsJsonObject(data)
             THEN [ok |-> TRUE, meta |-> data[2].meta]
        ELSE [ok |-> FALSE, meta |-> NoMeta]

---------------------------------------------------------------------------
(* chunks.dat: json.dump writes every int key as its decimal text, and     *)
(* TypeAdapter(dict[int, str]).validate_json reads the text back as int.   *)

RECURSIVE IntToText(_)
IntToText(n) ==
    IF n < 10 THEN <<n>> ELSE Append(IntToText(n \div 10), n % 10)

RECURSIVE TextToInt(_)
TextToInt(t) ==
    IF Len(t) = 1 THEN t[1]
    ELSE 10 * TextToInt(SubSeq(t, 1, Len(t) - 1)) + t[Len(t)]

\* json.dump(content_cache, f)
DumpCache(cache) ==
    [t \in {IntToText(k) : k \in DOMAIN cache} |-> cache[TextToInt(t)]]

\* LoadCache that reads nothing from the file
LoadCacheNothing(data) == EmptyDict

\* adapter.validate_json(raw_content_cache)
LoadCache(data) ==
    [k \in {TextToInt(t) : t \in DOMAIN data} |->
        data[CHOOSE t \in DOMAIN data : TextToInt(t) = k]]

---------------------------------------------------------------------------
(* The server: what it may describe and what it may send.                  *)

\* a bookMap entry: the list of the chapters merged into chapter key
MergedList(key, n) == [i \in 1..n |-> key + i]

BookMaps ==
    UNION {[S -> 0..MaxExtra] : S \in SUBSET (1..MaxChapter)}

MetaSet ==
    {BookMeta(n, FALSE, EmptyDict) : n \in 1..MaxChapter}
    \cup {BookMeta(Cardinality(DOMAIN f), TRUE,
                   [key \in DOMAIN f |-> MergedList(key, f[key])]) : f \in BookMaps}

RECURSIVE Splits(_, _)
\* every way to cut text into n non-empty pieces
Splits(text, n) ==
    IF n = 1 THEN {<<text>>}
    ELSE UNION {{<<SubSeq(text, 1, k)>> \o r :
                    r \in Splits(SubSeq(text, k + 1, Len(text)), n - 1)} :
                k \in 1..(Len(text) - (n - 1))}

\* the chunk messages of an initialise response carrying text in pieces
InitResponse(pieces) ==
    {InitChunkMsg(Len(pieces), i - 1, pieces[i]) : i \in 1..Len(pieces)}

\* the initialise responses that describe meta: encoded once or twice,
\* cut into 1..MaxChunks chunks
InitResponses(meta) ==
    UNION {UNION {{InitResponse(pieces) : pieces \in Splits(text, n)} :
                     n \in 1..MaxChunks} :
           text \in {Encoded(meta, 0), Encoded(meta, 1)}}

\* the text of unit (page, part): the book is what it is, however the
\* server cuts it for the transport
PageText(page, part) ==
    [i \in 1..(MaxGroups * MaxChunks) |-> <<"text", page, part, i>>]

\* text cut into k pieces: piece j, the last one taking the rest
Piece(text, k, j) ==
    IF j < k THEN SubSeq(text, j, j) ELSE SubSeq(text, k, Len(text))

\* a loadPage response without the merged-chapter fields: n chunks
PlainResponse(page, part, n) ==
    {PageChunkMsg(IntToText(page), n, c, None, None,
                  Piece(PageText(page, part), n, c + 1)) : c \in 0..(n - 1)}

\* a loadPage response of merged groups 1..Len(sizes), group g cut into
\* sizes[g] chunks
MergedResponse(page, part, sizes) ==
    LET before(g) == SumSeq(SubSeq(sizes, 1, g - 1))
    IN  UNION {{PageChunkMsg(IntToText(page), sizes[g], c, g, Len(sizes),
                             Piece(PageText(page, part), SumSeq(sizes),
                                   before(g) + c + 1)) : c \in 0..(sizes[g] - 1)} :
               g \in 1..Len(sizes)}

\* answers of at most maxgroups merged groups
ResponsesUpTo(page, part, maxgroups) ==
    {PlainResponse(page, part, n) : n \in 1..MaxChunks}
    \cup UNION {{MergedResponse(page, part, sizes) : sizes \in [1..G -> 1..MaxChunks]} :
                G \in 1..maxgroups}

PageResponses(page, part) == ResponsesUpTo(page, part, MaxGroups)

\* the answers of a server that never merges chapters
SingleGroupResponses(page, part) == ResponsesUpTo(page, part, 1)

\* messages that are no chunk: a server error, or an event the client
\* does not know
ErrorCodes == {401, 500}
Interruptions ==
    {ErrorMsg(code, "server error") : code \in ErrorCodes}
    \cup {[ErrorMsg(0, "") EXCEPT !.event = Event("pageChunk-", << >>)]}

\* what the server may put on the socket for one answer: the messages of
\* S, possibly with one interruption among them.  The server sends them in
\* an order of its choosing; see channel.
Deliveries(S) == {S} \cup {S \cup {m} : m \in Interruptions}

---------------------------------------------------------------------------
(* Requests, client to server *)

\* InitCommand carrying the action of a loadPage request
InitCommandLoadsPage == [action |-> "loadPage", pageId |-> 0, mergedChapterPartIndex |-> 0]

\* InitCommand(action="initialise", ...)
InitCommand == [action |-> "initialise", pageId |-> 0, mergedChapterPartIndex |-> 0]

\* LoadPageCommand(action="loadPage", data=LoadPageCommandData(page_id, part_index))
LoadPageCommand(page_id, part_index) ==
    [action |-> "loadPage", pageId |-> page_id, mergedChapterPartIndex |-> part_index]

---------------------------------------------------------------------------
(* Initial state: fetch_contents has been called and nothing has run.      *)
(* chunks.dat is absent, or holds what an earlier session dumped.          *)

\* the text an earlier session cached for unit index k
CachedText(k) == << <<"cached", k, 0, 0>> >>

Snapshots ==
    {DumpCache([k \in S |-> CachedText(k)]) : S \in SUBSET (1..MaxCached)}

NoFirst == [yielded |-> << >>, fetched |-> 0]

\* a server that does not deviate: no extra encoding layer recorded, no
\* chunk sent twice, no answer that declares another number of chunks than
\* it holds (answer is the position in sent of the request so answered,
\* excess the number declared less the number held)
Faithful == [layers |-> 0, redelivered |-> FALSE, excess |-> 0, answer |-> 0]

\* no call of encrypt or decrypt
NoCipher == [stage |-> "none", token |-> [token |-> << >>], message |-> << >>,
             envelope |-> << >>, result |-> [ok |-> FALSE, bytes |-> << >>]]

SessionInit ==
    /\ pc = "start"
    /\ outcome = "none"
    /\ error = <<0, "">>
    /\ file \in {[exists |-> FALSE, data |-> EmptyDict]}
                \cup {[exists |-> TRUE, data |-> d] : d \in Snapshots}
    /\ content_cache = EmptyDict
    /\ flushes = 0
    /\ channel = << >>
    /\ sent = << >>
    /\ unanswered = 0
    /\ chunk_info = EmptyDict
    /\ book_chapter_meta = NoMeta
    /\ chapter_idx = 1
    /\ part_no = 0
    /\ page_content = EmptyDict
    /\ merged_chapter_chunk_sizes = EmptyDict
    /\ yielded = << >>
    /\ resp = {}
    /\ rcvd = {}
    /\ ret = << >>
    /\ loaded = EmptyDict
    /\ described = NoMeta
    /\ session = 1
    /\ earlier = NoFirst
    /\ served = Faithful

Init ==
    /\ SessionInit
    /\ cipher = NoCipher

---------------------------------------------------------------------------
(* The socket.  The server sends the messages of one answer in any order, *)
(* and recv() hands them over in that order, answer after answer; nothing  *)
(* else reads the socket, so the order within an answer is settled here,   *)
(* message by message, when the client receives.                           *)

\* the messages recv() may return next
Receivable == IF channel = << >> THEN {} ELSE Head(channel)

\* the socket after recv() returned m
AfterRecv(m) ==
    IF Head(channel) = {m} THEN Tail(channel)
    ELSE <<Head(channel) \ {m}>> \o Tail(channel)

---------------------------------------------------------------------------
(* fetch_contents *)

\* CacheHit with the cache never consulted
CacheIgnored(cache, ind) == FALSE

\* `part_ind in content_cache`
CacheHit(cache, ind) == ind \in DOMAIN cache

\* FlushedFile with the dump left out
FlushSkipped(f, cache) == f

\* what the finally block leaves in chunks.dat
FlushedFile(f, cache) == [exists |-> TRUE, data |-> DumpCache(cache)]

\* Teardown with the dump at the end of the try block instead of in a
\* finally block: an exception skips it
TeardownWithoutFinally(cache, how, err) ==
    /\ channel' = << >>
    /\ file' = IF how = "ok" THEN FlushedFile(file, cache) ELSE file
    /\ flushes' = IF how = "ok" THEN flushes + 1 ELSE flushes
    /\ pc' = "done"
    /\ outcome' = how
    /\ error' = err

\* the exception (or the normal end) leaves the try block: the socket is
\* closed, the finally block dumps the cache, and the generator is finished
Teardown(cache, how, err) ==
    /\ channel' = << >>
    /\ file' = FlushedFile(file, cache)
    /\ flushes' = flushes + 1
    /\ pc' = "done"
    /\ outcome' = how
    /\ error' = err

NoError == <<0, "">>

\* the loop variables after the body ran for (chapter_idx, part_no)
NextPosition ==
    LET scm == sorted_chapter_meta(book_chapter_meta)
    IN  IF part_no + 1 < scm[chapter_idx][2]
        THEN <<chapter_idx, part_no + 1>>
        ELSE <<chapter_idx + 1, 0>>

InLoop ==
    /\ pc = "loop"
    /\ chapter_idx <= Len(sorted_chapter_meta(book_chapter_meta))

\* InitializeIncomplete that takes the loop for over one chunk early
InitializeIncompleteShort(info, chunk_data) ==
    Cardinality(DOMAIN info) + 1 < chunk_data.total_chunk_num

\* initialize: `len(chunk_info) < chunk_data.total_chunk_num`
InitializeIncomplete(info, chunk_data) ==
    Cardinality(DOMAIN info) < chunk_data.total_chunk_num

\* the cache file is read, if there is one
ReadCache ==
    /\ pc = "start"
    /\ content_cache' = IF file.exists THEN LoadCache(file.data) ELSE EmptyDict
    /\ loaded' = content_cache'
    /\ pc' = "connect"
    /\ UNCHANGED <<outcome, error, file, flushes, channel, sent, unanswered,
                   chunk_info, book_chapter_meta, chapter_idx, part_no,
                   page_content, merged_chapter_chunk_sizes, yielded, resp,
                   rcvd, ret, described>>
    /\ UNCHANGED aside

\* connect() fails: the exception leaves the try block
ConnectFails ==
    /\ pc = "connect"
    /\ Teardown(content_cache, "ConnectionError", NoError)
    /\ UNCHANGED <<content_cache, sent, unanswered, chunk_info,
                   book_chapter_meta, chapter_idx, part_no, page_content,
                   merged_chapter_chunk_sizes, yielded, resp, rcvd, ret, loaded, described>>
    /\ UNCHANGED aside

\* initialize, up to its first recv: the initialise request is sent
InitializeSend ==
    /\ pc = "connect"
    /\ sent' = Append(sent, InitCommand)
    /\ unanswered' = unanswered + 1
    /\ chunk_info' = EmptyDict
    /\ pc' = "initialize"
    /\ UNCHANGED <<outcome, error, file, content_cache, flushes, channel,
                   book_chapter_meta, chapter_idx, part_no, page_content,
                   merged_chapter_chunk_sizes, yielded, resp, rcvd, ret, loaded, described>>
    /\ UNCHANGED aside

\* initialize: one turn of the receive loop, and what follows the loop
\* when this turn ends it
InitializeRecv ==
    /\ pc = "initialize"
    /\ \E m \in Receivable :
       LET kind == ParseInitResponse(m)
           chunk_data == InitCommandResponseChunk(m)
           info == Put(chunk_info, chunk_data.chunk_num, chunk_data.content)
           parsed == ParseBookChapterMetadata(JoinSorted(info))
       IN  CASE kind = "ErrorResponse" ->
                  /\ Teardown(content_cache, "DataProviderError", <<m.code, m.message>>)
                  /\ UNCHANGED <<chunk_info, book_chapter_meta, chapter_idx, part_no>>
             [] kind = "ValidationError" ->
                  /\ Teardown(content_cache, "ValidationError", NoError)
                  /\ UNCHANGED <<chunk_info, book_chapter_meta, chapter_idx, part_no>>
             [] OTHER ->
                  IF InitializeIncomplete(info, chunk_data)
                  THEN /\ channel' = AfterRecv(m)
                       /\ chunk_info' = info
                       /\ UNCHANGED <<pc, outcome, error, file, flushes,
                                      book_chapter_meta, chapter_idx, part_no>>
                  ELSE IF parsed.ok
                  THEN /\ channel' = AfterRecv(m)
                       /\ chunk_info' = EmptyDict
                       /\ book_chapter_meta' = parsed.meta
                       /\ chapter_idx' = 1
                       /\ part_no' = 0
                       /\ pc' = "loop"
                       /\ UNCHANGED <<outcome, error, file, flushes>>
                  ELSE /\ Teardown(content_cache, "ValidationError", NoError)
                       /\ UNCHANGED <<chunk_info, book_chapter_meta, chapter_idx, part_no>>
    /\ UNCHANGED <<content_cache, sent, unanswered, page_content,
                   merged_chapter_chunk_sizes, yielded, resp, rcvd, ret, loaded, described>>
    /\ UNCHANGED aside

\* the loop body for a unit the cache holds: the cached text is yielded
YieldCached ==
    /\ InLoop
    /\ LET scm == sorted_chapter_meta(book_chapter_meta)
           chapter == scm[chapter_idx][1]
           ind == part_ind(chapter, part_no)
       IN  /\ CacheHit(content_cache, ind)
           /\ yielded' = Append(yielded,
                  <<ind, content_cache[ind], num_parts(book_chapter_meta)>>)
    /\ chapter_idx' = NextPosition[1]
    /\ part_no' = NextPosition[2]
    /\ UNCHANGED <<pc, outcome, error, file, content_cache, flushes, channel,
                   sent, unanswered, chunk_info, book_chapter_meta,
                   page_content, merged_chapter_chunk_sizes, resp, rcvd, ret, loaded, described>>
    /\ UNCHANGED aside

\* the loop body for a unit the cache lacks, up to load_page's first recv:
\* the loadPage request is sent
LoadPageSend ==
    /\ InLoop
    /\ LET scm == sorted_chapter_meta(book_chapter_meta)
           chapter == scm[chapter_idx][1]
       IN  /\ ~CacheHit(content_cache, part_ind(chapter, part_no))
           /\ sent' = Append(sent, LoadPageCommand(chapter, part_no))
    /\ unanswered' = unanswered + 1
    /\ page_content' = EmptyDict
    /\ merged_chapter_chunk_sizes' = EmptyDict
    /\ pc' = "load_page"
    /\ resp' = {}
    /\ rcvd' = {}
    /\ ret' = << >>
    /\ UNCHANGED <<outcome, error, file, content_cache, flushes, channel,
                   chunk_info, book_chapter_meta, chapter_idx, part_no, yielded,
                   loaded, described>>
    /\ UNCHANGED aside

\* load_page: one turn of the receive loop; when this turn ends the loop,
\* load_page returns, the text is cached and the unit is yielded
LoadPageRecv ==
    /\ pc = "load_page"
    /\ \E m \in Receivable :
       LET kind == ParsePageResponse(m)
           st == LoadPageAccumulate(
                    [page_content |-> page_content,
                     merged_chapter_chunk_sizes |-> merged_chapter_chunk_sizes], m)
           scm == sorted_chapter_meta(book_chapter_meta)
           ind == part_ind(scm[chapter_idx][1], part_no)
           part_content == LoadPageFullContent(st.page_content)
       IN  CASE kind = "ErrorResponse" ->
                  /\ Teardown(content_cache, "DataProviderError", <<m.code, m.message>>)
                  /\ UNCHANGED <<content_cache, chapter_idx, part_no, page_content,
                                 merged_chapter_chunk_sizes, yielded, rcvd, ret>>
             [] kind = "ValidationError" ->
                  /\ Teardown(content_cache, "ValidationError", NoError)
                  /\ UNCHANGED <<content_cache, chapter_idx, part_no, page_content,
                                 merged_chapter_chunk_sizes, yielded, rcvd, ret>>
             [] OTHER ->
                  /\ channel' = AfterRecv(m)
                  /\ rcvd' = rcvd \cup {m}
                  /\ IF LoadPageIncomplete(st, m)
                     THEN /\ page_content' = st.page_content
                          /\ merged_chapter_chunk_sizes' = st.merged_chapter_chunk_sizes
                          /\ UNCHANGED <<pc, outcome, error, file, flushes,
                                         content_cache, chapter_idx, part_no,
                                         yielded, ret>>
                     ELSE /\ page_content' = EmptyDict
                          /\ merged_chapter_chunk_sizes' = EmptyDict
                          /\ content_cache' = Put(content_cache, ind, part_content)
                          /\ yielded' = Append(yielded,
                                 <<ind, part_content, num_parts(book_chapter_meta)>>)
                          /\ chapter_idx' = NextPosition[1]
                          /\ part_no' = NextPosition[2]
                          /\ ret' = <<part_content>>
                          /\ pc' = "loop"
                          /\ UNCHANGED <<outcome, error, file, flushes>>
    /\ UNCHANGED <<sent, unanswered, chunk_info, book_chapter_meta, resp,
                   loaded, described>>
    /\ UNCHANGED aside

\* both loops are over: the socket is closed and the finally block runs
FetchFinish ==
    /\ pc = "loop"
    /\ chapter_idx > Len(sorted_chapter_meta(book_chapter_meta))
    /\ Teardown(content_cache, "ok", NoError)
    /\ UNCHANGED <<content_cache, sent, unanswered, chunk_info,
                   book_chapter_meta, chapter_idx, part_no, page_content,
                   merged_chapter_chunk_sizes, yielded, resp, rcvd, ret, loaded, described>>
    /\ UNCHANGED aside

\* the task is cancelled while it awaits a message
Cancel ==
    /\ pc \in {"initialize", "load_page"}
    /\ Teardown(content_cache, "CancelledError", NoError)
    /\ UNCHANGED <<content_cache, sent, unanswered, chunk_info,
                   book_chapter_meta, chapter_idx, part_no, page_content,
                   merged_chapter_chunk_sizes, yielded, resp, rcvd, ret, loaded, described>>
    /\ UNCHANGED aside

---------------------------------------------------------------------------
(* The server answers the oldest request it has not answered yet.          *)

OldestUnanswered == sent[Len(sent) - unanswered + 1]

ServerAnswersInitialise ==
    /\ pc # "done"
    /\ unanswered > 0
    /\ OldestUnanswered.action = "initialise"
    /\ \E meta \in (IF session = 1 THEN MetaSet ELSE {described}) :
          /\ described' = meta
          /\ \E S \in InitResponses(meta) : \E d \in Deliveries(S) :
                channel' = Append(channel, d)
    /\ unanswered' = unanswered - 1
    /\ UNCHANGED <<pc, outcome, error, file, content_cache, flushes, sent,
                   chunk_info, book_chapter_meta, chapter_idx, part_no,
                   page_content, merged_chapter_chunk_sizes, yielded, resp,
                   rcvd, ret, loaded>>
    /\ UNCHANGED aside

AnswerLoadPage(S) ==
    /\ pc # "done"
    /\ unanswered > 0
    /\ OldestUnanswered.action = "loadPage"
    /\ resp' = S
    /\ \E d \in Deliveries(S) : channel' = Append(channel, d)
    /\ unanswered' = unanswered - 1
    /\ UNCHANGED <<pc, outcome, error, file, content_cache, flushes, sent,
                   chunk_info, book_chapter_meta, chapter_idx, part_no,
                   page_content, merged_chapter_chunk_sizes, yielded, rcvd,
                   ret, loaded, described>>
    /\ UNCHANGED aside

\* the server answers the oldest loadPage request, possibly in merged groups
ServerAnswersLoadPage ==
    /\ unanswered > 0
    /\ OldestUnanswered.action = "loadPage"
    /\ \E S \in PageResponses(OldestUnanswered.pageId,
                              OldestUnanswered.mergedChapterPartIndex) :
          AnswerLoadPage(S)

\* the server answers the oldest loadPage request without merged groups
ServerAnswersLoadPageSingle ==
    /\ unanswered > 0
    /\ OldestUnanswered.action = "loadPage"
    /\ \E S \in SingleGroupResponses(OldestUnanswered.pageId,
                                     OldestUnanswered.mergedChapterPartIndex) :
          AnswerLoadPage(S)

\* the steps of the client
Client ==
    \/ ReadCache
    \/ ConnectFails
    \/ InitializeSend
    \/ InitializeRecv
    \/ YieldCached
    \/ LoadPageSend
    \/ LoadPageRecv
    \/ FetchFinish
    \/ Cancel

\* one session against a server that may merge chapters
Next ==
    \/ Client
    \/ ServerAnswersInitialise
    \/ ServerAnswersLoadPage

Spec == Init /\ [][Next]_vars

\* one session against a server that never merges chapters
NextSingle ==
    \/ Client
    \/ ServerAnswersInitialise
    \/ ServerAnswersLoadPageSingle

SpecSingle == Init /\ [][NextSingle]_vars

---------------------------------------------------------------------------
(* The wire fields of a loadPage answer, read as the protocol defines them *)

\* the merged group a chunk message belongs to
GroupOf(m) == m.mergedChapterNumber

\* the number of merged groups a chunk message declares: 1 if absent
DeclaredGroups(m) ==
    IF m.numberOfMergedChapters = None THEN 1 ELSE m.numberOfMergedChapters

\* the chunk numbers of group g among the messages of S
ChunksOf(S, g) == {m.chunkNumber : m \in {x \in S : GroupOf(x) = g}}

\* the messages of S in ascending (group, chunk) order
RECURSIVE InGroupChunkOrder(_)
InGroupChunkOrder(S) ==
    IF S = {} THEN << >>
    ELSE LET first == CHOOSE m \in S : \A x \in S :
                          \/ GroupOf(m) < GroupOf(x)
                          \/ GroupOf(m) = GroupOf(x) /\ m.chunkNumber <= x.chunkNumber
         IN  <<first>> \o InGroupChunkOrder(S \ {first})

\* every fragment of S once, groups ascending, chunks ascending within each
AllFragments(S) ==
    LET ms == InGroupChunkOrder(S)
    IN  Concat([i \in 1..Len(ms) |-> ms[i].content])

RECURSIVE RunLoadPage(_, _)
\* load_page's receive loop run on the chunk messages of delivery, from
\* local state st: what it returns, and how many messages it left unread
RunLoadPage(st, delivery) ==
    IF delivery = << >>
    THEN [returns |-> FALSE, content |-> << >>, unread |-> 0]
    ELSE LET after == LoadPageAccumulate(st, Head(delivery))
         IN  IF LoadPageIncomplete(after, Head(delivery))
             THEN RunLoadPage(after, Tail(delivery))
             ELSE [returns |-> TRUE,
                   content |-> LoadPageFullContent(after.page_content),
                   unread |-> Len(delivery) - 1]

FreshLoadPage ==
    [page_content |-> EmptyDict, merged_chapter_chunk_sizes |-> EmptyDict]

---------------------------------------------------------------------------
(* Claims about load_page *)

\* C1: when load_page returns, the number of distinct merged groups it has
\* received equals the declared number of groups, and of every group it
\* has received as many distinct chunks as that group declares.
C1_TwoLevelCompletion ==
    ret # << >> =>
        \A m \in rcvd :
            /\ Cardinality({GroupOf(x) : x \in rcvd}) = DeclaredGroups(m)
            /\ Cardinality(ChunksOf(rcvd, GroupOf(m))) = m.numberOfChunks

\* C2: the text load_page returns is every fragment the server sent for the
\* unit, each once, groups in ascending order and chunks in ascending order
\* within each group.
C2_ContentIsAllFragments ==
    ret # << >> => ret[1] = AllFragments(resp)

\* C3: whatever the order of delivery, load_page consumes exactly the
\* messages of the unit's answer and returns what it returns for them in
\* (group, chunk) order; and initialize consumes every chunk of its answer
\* and yields the metadata the server described.
C3_OrderIndependent ==
    /\ ret # << >> =>
          /\ rcvd = resp
          /\ LET run == RunLoadPage(FreshLoadPage, InGroupChunkOrder(resp))
             IN  run.returns /\ run.unread = 0 /\ ret[1] = run.content
    /\ pc \in {"loop", "load_page"} =>
          /\ book_chapter_meta = described
          /\ \A i \in 1..Len(channel) : \A m \in channel[i] :
                m.event # InitChunkEvent

---------------------------------------------------------------------------
(* Claims about the unit indices of fetch_contents *)

\* the units the two loops of fetch_contents visit, in the order in which
\* they visit them: <<chapter, part_no>>
UnitSeq(meta) ==
    LET scm == sorted_chapter_meta(meta)
    IN  Concat([i \in 1..Len(scm) |-> [p \in 1..scm[i][2] |-> <<scm[i][1], p - 1>>]])

\* the indices yielded so far, in order
YieldedIndices == [i \in 1..Len(yielded) |-> yielded[i][1]]

\* C4: the units yielded so far have pairwise distinct indices, and each
\* was answered from the snapshot's entry for it or with its own text.
C4_IndexUnique ==
    LET units == UnitSeq(book_chapter_meta)
    IN  \A j \in 1..Len(yielded) :
           /\ \A k \in 1..Len(yielded) : j # k => yielded[j][1] # yielded[k][1]
           /\ \/ yielded[j][1] \in DOMAIN loaded
              \/ yielded[j][2] = PageText(units[j][1], units[j][2])

\* the metadata of the example: top-level unit 1 has 2 sub-units, top-level
\* unit 2 has 1
ExampleLengths == [key \in {1, 2} |-> IF key = 1 THEN 2 ELSE 1]

\* C5: for the example metadata a fetch that runs to its end yields the
\* indices 1, 2, 3 in that order; and in general, for top-level units
\* 1..n, it yields 1, 2, ... up to the number of units.
C5_ExampleIndices ==
    LET cl == chapter_lengths(book_chapter_meta)
    IN  /\ (outcome = "ok" /\ cl = ExampleLengths) => YieldedIndices = <<1, 2, 3>>
        /\ (outcome = "ok" /\ DOMAIN cl = 1..Cardinality(DOMAIN cl)) =>
              YieldedIndices = [i \in 1..num_parts(book_chapter_meta) |-> i]

\* C6: every index yielded is greater than every index yielded before it.
C6_StrictlyAscending ==
    \A i, j \in 1..Len(yielded) : i < j => yielded[i][1] < yielded[j][1]

---------------------------------------------------------------------------
(* Claims about the cache and the end of the session *)

\* the index a loadPage request asks for
RequestIndex(req) == part_ind(req.pageId, req.mergedChapterPartIndex)

\* the positions in sent of the loadPage requests
LoadPageRequests == {j \in 1..Len(sent) : sent[j].action = "loadPage"}

\* C7: a unit whose index the snapshot held is yielded with the snapshot's
\* text, and no loadPage request is sent for an index the cache holds: none
\* for an index of the snapshot, none for an index requested before.
C7_CacheShortCircuit ==
    /\ \A j \in 1..Len(yielded) :
          yielded[j][1] \in DOMAIN loaded => yielded[j][2] = loaded[yielded[j][1]]
    /\ \A j \in LoadPageRequests :
          /\ RequestIndex(sent[j]) \notin DOMAIN loaded
          /\ \A k \in LoadPageRequests :
                k < j => RequestIndex(sent[k]) # RequestIndex(sent[j])

\* a finished session that yielded a unit from the snapshot and fetched
\* another one
C7_Witness ==
    /\ outcome = "ok"
    /\ \E j \in 1..Len(yielded) : yielded[j][1] \in DOMAIN loaded
    /\ LoadPageRequests # {}

\* the cache file, read back
FileCache == LoadCache(file.data)

\* C8: after a session that raised, the cache file holds the entries of the
\* snapshot, unchanged, and the units yielded in the session, each with the
\* text yielded for it, and nothing else.
C8_TeardownKeepsCompleted ==
    (pc = "done" /\ outcome # "ok") =>
        /\ file.exists
        /\ DOMAIN FileCache = DOMAIN loaded \cup {yielded[j][1] : j \in 1..Len(yielded)}
        /\ \A k \in DOMAIN loaded : FileCache[k] = loaded[k]
        /\ \A j \in 1..Len(yielded) : FileCache[yielded[j][1]] = yielded[j][2]

\* a session that started without a snapshot, was to fetch 3 units and met
\* a server error after 2: the file holds 2 entries
C8_Witness ==
    /\ pc = "done"
    /\ outcome = "DataProviderError"
    /\ loaded = EmptyDict
    /\ num_parts(book_chapter_meta) = 3
    /\ Len(yielded) = 2
    /\ Cardinality(DOMAIN file.data) = 2

\* C9: the finally block has run exactly once when the session is over,
\* never before, and what it wrote is the cache as the session left it.
C9_FlushExactlyOnce ==
    /\ pc = "done" =>
          /\ flushes = 1
          /\ file.exists
          /\ file.data = DumpCache(content_cache)
    /\ pc # "done" => flushes = 0

\* a session cancelled in load_page after it had fetched a unit
C9_Witness ==
    /\ pc = "done"
    /\ outcome = "CancelledError"
    /\ flushes = 1
    /\ DOMAIN content_cache # DOMAIN loaded
    /\ page_content # EmptyDict

\* C10: a received error event always raises DataProviderError with the
\* server's code and message; the step that raises returns, yields and
\* caches nothing and sends nothing, and after it nothing is sent, yielded
\* or cached any more.
C10_ErrorAborts ==
    [][/\ \A m \in Receivable :
             (/\ pc \in {"initialize", "load_page"}
              /\ m.event = ErrorEvent
              /\ Receivable = {m}
              /\ unanswered' = unanswered
              /\ outcome' # "CancelledError") =>
                 (outcome' = "DataProviderError" /\ error' = <<m.code, m.message>>)
       /\ (/\ pc \in {"initialize", "load_page"}
           /\ outcome' = "none"
           /\ unanswered' = unanswered) =>
              \E m \in Receivable : m.event # ErrorEvent /\ channel' = AfterRecv(m)
       /\ (outcome = "none" /\ outcome' = "DataProviderError") =>
              /\ \E m \in Receivable :
                    m.event = ErrorEvent /\ error' = <<m.code, m.message>>
              /\ pc' = "done"
              /\ ret' = ret /\ yielded' = yielded /\ content_cache' = content_cache
              /\ sent' = sent
              /\ FileCache' = content_cache
       /\ outcome # "none" =>
              /\ sent' = sent /\ yielded' = yielded
              /\ content_cache' = content_cache /\ file' = file
      ]_vars

\* a server error met between the chunks of a loadPage answer, after a
\* unit had been yielded
C10_Witness ==
    /\ outcome = "DataProviderError"
    /\ error[1] \in ErrorCodes
    /\ page_content # EmptyDict
    /\ Len(yielded) >= 1

---------------------------------------------------------------------------
(* Claims about the errors of load_page *)

\* C11: a session that a message ended after its first loadPage request,
\* that is, in load_page, ended with DataProviderError, the class raised for
\* the server's error events: also when the message was one whose event
\* name does not match pageChunk-<n>.
C11_UnexpectedEventIsProviderError ==
    (/\ pc = "done"
     /\ LoadPageRequests # {}
     /\ outcome \notin {"ok", "CancelledError"}) =>
        outcome = "DataProviderError"

---------------------------------------------------------------------------
(* Claims about the use of the socket *)

\* the chunk messages that wait on the socket
PendingChunks ==
    UNION {{m \in channel[i] : m.event = InitChunkEvent \/ validate_event(m.event)} :
           i \in 1..Len(channel)}

\* C12: at most one request is without its answer at any time, and while
\* the newest request is without its answer, no chunk message of the answer
\* to an earlier request waits on the socket: each exchange consumed every
\* chunk of its answer before the next request was sent.
C12_OneExchangeInFlight ==
    /\ unanswered <= 1
    /\ (pc = "load_page" /\ unanswered = 1) => PendingChunks = {}

---------------------------------------------------------------------------
(* A second call of fetch_contents for the same book and cache directory, *)
(* after a first one that ran to its end.  The server describes the same   *)
(* book as before.                                                         *)

RunAgain ==
    /\ pc = "done"
    /\ outcome = "ok"
    /\ session = 1
    /\ session' = 2
    /\ earlier' = [yielded |-> yielded, fetched |-> Cardinality(LoadPageRequests)]
    /\ pc' = "start"
    /\ outcome' = "none"
    /\ error' = NoError
    /\ content_cache' = EmptyDict
    /\ flushes' = 0
    /\ channel' = << >>
    /\ sent' = << >>
    /\ unanswered' = 0
    /\ chunk_info' = EmptyDict
    /\ book_chapter_meta' = NoMeta
    /\ chapter_idx' = 1
    /\ part_no' = 0
    /\ page_content' = EmptyDict
    /\ merged_chapter_chunk_sizes' = EmptyDict
    /\ yielded' = << >>
    /\ resp' = {}
    /\ rcvd' = {}
    /\ ret' = << >>
    /\ loaded' = EmptyDict
    /\ UNCHANGED <<file, described, served, cipher>>

NextRerun ==
    \/ Client
    \/ ServerAnswersInitialise
    \/ ServerAnswersLoadPageSingle
    \/ RunAgain

SpecRerun == Init /\ [][NextRerun]_vars

\* C13: in a second session after a first one that ended without error, the
\* cache read from the file holds every index the first session yielded
\* with the text it yielded, no loadPage request is sent, and the units are
\* yielded as the first session yielded them: same indices, same text.
C13_RepeatedRunsAvoidRefetch ==
    session = 2 =>
        /\ pc # "start" =>
              \A j \in 1..Len(earlier.yielded) :
                  /\ earlier.yielded[j][1] \in DOMAIN loaded
                  /\ loaded[earlier.yielded[j][1]] = earlier.yielded[j][2]
        /\ LoadPageRequests = {}
        /\ Len(yielded) <= Len(earlier.yielded)
        /\ \A j \in 1..Len(yielded) : yielded[j] = earlier.yielded[j]
        /\ outcome = "ok" => yielded = earlier.yielded

\* a second session that ran to its end after a first one that had fetched
\* at least two units
C13_Witness ==
    /\ session = 2
    /\ outcome = "ok"
    /\ earlier.fetched >= 2
    /\ Len(yielded) >= 2

---------------------------------------------------------------------------
(* auth.py: key derivation, encrypt and decrypt.  Bytes are numbers in     *)
(* 0..255, a bytes object is a sequence of them, and a str is the sequence *)
(* of its code points.  The digests and the block cipher of the libraries  *)
(* are replaced by small functions of the same shape: a digest is a        *)
(* function of its whole input, AESDecryptBlock inverts AESEncryptBlock    *)
(* under the same key and under no other.                                  *)

KEY_LEN == 32
IV_LEN == 16
BLOCK_SIZE == 16

\* binascii.unhexlify(PREFIX): b"Salted__"
PREFIX == <<83, 97, 108, 116, 101, 100, 95, 95>>

\* binascii.unhexlify(BOREALIS_CODE)
BOREALIS_CODE ==
    <<28, 29, 56, 61, 5, 98, 54, 26, 36, 27, 107, 122, 37, 61, 113, 89, 101, 88,
      91, 113, 5, 62, 23, 29, 38, 116, 44, 70, 13, 34, 17, 2, 43, 16, 0, 0>>

\* binascii.unhexlify(ORION_CODE)
ORION_CODE ==
    <<108, 118, 114, 118, 85, 80, 114, 121, 82, 48, 51, 74, 110, 117, 71, 51, 51,
      43, 106, 48, 76, 107, 67, 112, 100, 71, 68, 113, 98, 105, 100, 99, 89, 119,
      61, 61>>

RECURSIVE Xor(_, _)
\* a ^ b
Xor(a, b) ==
    IF a = 0 /\ b = 0 THEN 0
    ELSE (((a % 2) + (b % 2)) % 2) + 2 * Xor(a \div 2, b \div 2)

\* bytes(v ^ y[i % len(y)] for i, v in enumerate(x))
shuffle(x, y) == [i \in 1..Len(x) |-> Xor(x[i], y[((i - 1) % Len(y)) + 1])]

RECURSIVE WeightedSum(_, _)
\* the bytes of data, each weighted by its position and by w
WeightedSum(data, w) ==
    IF data = << >> THEN 0
    ELSE (WeightedSum(SubSeq(data, 1, Len(data) - 1), w)
          + (data[Len(data)] * (w + Len(data)))) % 256

\* a digest of n bytes
Digest(data, n) ==
    [i \in 1..n |-> (WeightedSum(data, i) + (31 * i) + Len(data)) % 256]

\* md5(data).digest(): 16 bytes
md5(data) == Digest(data, 16)

\* one hexadecimal digit as a character
HexChar(v) == IF v < 10 THEN 48 + v ELSE 87 + v

\* SHA256.new(data).hexdigest(): 64 hexadecimal digits, a str
SHA256Hex(data) ==
    LET d == Digest(data, 32)
    IN  [i \in 1..64 |-> HexChar(IF (i % 2) = 1 THEN d[(i + 1) \div 2] \div 16
                                  ELSE d[i \div 2] % 16)]

\* str.encode("utf-8"), for code points below 2048
Utf8Char(cp) ==
    IF cp < 128 THEN <<cp>> ELSE <<192 + (cp \div 64), 128 + (cp % 64)>>

Utf8Encode(text) == Concat([i \in 1..Len(text) |-> Utf8Char(text[i])])

\* str.encode("utf-16-le"), for code points below 65536
Utf16LeEncode(text) ==
    Concat([i \in 1..Len(text) |-> <<text[i] % 256, text[i] \div 256>>])

\* [int.from_bytes(b, byteorder="little") for b in itertools.batched(data, 2)]
FoldPairs(data) ==
    [i \in 1..(Len(data) \div 2) |-> data[(2 * i) - 1] + (256 * data[2 * i])]

\* bytes_to_key: the loop, on dtot and the last digest d
RECURSIVE KeyStream(_, _, _, _)
KeyStream(dtot, d, password, salt) ==
    IF Len(dtot) < IV_LEN + KEY_LEN
    THEN LET dn == md5(d \o password \o salt)
         IN  KeyStream(dtot \o dn, dn, password, salt)
    ELSE dtot

\* bytes_to_key(password, salt, KEY_LEN, IV_LEN)
bytes_to_key(password, salt) ==
    LET d0 == md5(password \o salt)
        dtot == KeyStream(d0, d0, password, salt)
    IN  [key |-> SubSeq(dtot, 1, KEY_LEN),
         iv |-> SubSeq(dtot, KEY_LEN + 1, KEY_LEN + IV_LEN)]

\* passcode_from_token: auth_token is the decoded JWT, a record with the
\* claim "token"
passcode_from_token(auth_token) ==
    LET secret_token == Utf8Encode(auth_token.token)
        digest == SHA256Hex(secret_token)
        star_code == shuffle(BOREALIS_CODE, ORION_CODE)
        digest_code == FoldPairs(Utf16LeEncode(digest))
    IN  shuffle(star_code, digest_code)

\* pad(msg, BLOCK_SIZE): PKCS#7
pad(msg) ==
    LET n == BLOCK_SIZE - (Len(msg) % BLOCK_SIZE)
    IN  msg \o [i \in 1..n |-> n]

\* unpad(data, BLOCK_SIZE): the padding is checked and removed
unpad(data) ==
    LET n == IF data = << >> THEN 0 ELSE data[Len(data)]
        valid == /\ Len(data) > 0
                 /\ (Len(data) % BLOCK_SIZE) = 0
                 /\ n \in 1..BLOCK_SIZE
                 /\ \A i \in (Len(data) - n + 1)..Len(data) : data[i] = n
    IN  IF valid THEN [ok |-> TRUE, bytes |-> SubSeq(data, 1, Len(data) - n)]
        ELSE [ok |-> FALSE, bytes |-> << >>]

\* the block cipher under a 32-byte key: one block of BLOCK_SIZE bytes
AESEncryptBlock(key, block) ==
    [i \in 1..BLOCK_SIZE |->
        (block[(i % BLOCK_SIZE) + 1] + key[i] + (3 * key[i + BLOCK_SIZE])) % 256]

AESDecryptBlock(key, block) ==
    [i \in 1..BLOCK_SIZE |->
        LET j == ((i + BLOCK_SIZE - 2) % BLOCK_SIZE) + 1
        IN  (block[j] + 1024 - key[j] - (3 * key[j + BLOCK_SIZE])) % 256]

XorBlock(a, b) == [i \in 1..BLOCK_SIZE |-> Xor(a[i], b[i])]

RECURSIVE CbcEncrypt(_, _, _)
\* AES.new(key, AES.MODE_CBC, iv).encrypt(data)
CbcEncrypt(key, iv, data) ==
    IF data = << >> THEN << >>
    ELSE LET c == AESEncryptBlock(key, XorBlock(SubSeq(data, 1, BLOCK_SIZE), iv))
         IN  c \o CbcEncrypt(key, c, SubSeq(data, BLOCK_SIZE + 1, Len(data)))

RECURSIVE CbcDecrypt(_, _, _)
\* AES.new(key, AES.MODE_CBC, iv).decrypt(data)
CbcDecrypt(key, iv, data) ==
    IF Len(data) < BLOCK_SIZE THEN << >>
    ELSE LET c == SubSeq(data, 1, BLOCK_SIZE)
         IN  XorBlock(AESDecryptBlock(key, c), iv)
             \o CbcDecrypt(key, c, SubSeq(data, BLOCK_SIZE + 1, Len(data)))

\* base64: the character of a 6-bit value, and back
B64Char(v) ==
    IF v < 26 THEN 65 + v
    ELSE IF v < 52 THEN 97 + (v - 26)
    ELSE IF v < 62 THEN 48 + (v - 52)
    ELSE IF v = 62 THEN 43 ELSE 47

B64Value(c) ==
    IF c \in 65..90 THEN c - 65
    ELSE IF c \in 97..122 THEN (c - 97) + 26
    ELSE IF c \in 48..57 THEN (c - 48) + 52
    ELSE IF c = 43 THEN 62 ELSE 63

\* "="
B64Pad == 61

RECURSIVE b64encode(_)
\* base64.b64encode(data)
b64encode(data) ==
    IF data = << >> THEN << >>
    ELSE IF Len(data) = 1
    THEN <<B64Char(data[1] \div 4), B64Char((data[1] % 4) * 16), B64Pad, B64Pad>>
    ELSE IF Len(data) = 2
    THEN <<B64Char(data[1] \div 4),
           B64Char(((data[1] % 4) * 16) + (data[2] \div 16)),
           B64Char((data[2] % 16) * 4), B64Pad>>
    ELSE <<B64Char(data[1] \div 4),
           B64Char(((data[1] % 4) * 16) + (data[2] \div 16)),
           B64Char(((data[2] % 16) * 4) + (data[3] \div 64)),
           B64Char(data[3] % 64)>>
         \o b64encode(SubSeq(data, 4, Len(data)))

RECURSIVE b64decode(_)
\* base64.b64decode(text), for text that b64encode produced
b64decode(text) ==
    IF Len(text) < 4 THEN << >>
    ELSE LET a == B64Value(text[1])
             b == B64Value(text[2])
             c == B64Value(text[3])
             d == B64Value(text[4])
             b1 == (a * 4) + (b \div 16)
             b2 == ((b % 16) * 16) + (c \div 4)
             b3 == ((c % 4) * 64) + d
         IN  IF text[3] = B64Pad THEN <<b1>>
             ELSE IF text[4] = B64Pad THEN <<b1, b2>>
             ELSE <<b1, b2, b3>> \o b64decode(SubSeq(text, 5, Len(text)))

\* decrypt that takes the salt from bytes 0..8 of the envelope, the marker
SaltFromMarker(encrypted) == SubSeq(encrypted, 1, 8)

\* encrypted[8:16]
SaltOf(encrypted) == SubSeq(encrypted, 9, 16)

\* encrypted[16:]
CypherOf(encrypted) == SubSeq(encrypted, 17, Len(encrypted))

\* encrypt(auth_token, message), with salt = get_random_bytes(8)
encrypt(auth_token, message, salt) ==
    LET passcode == passcode_from_token(auth_token)
        msg == Utf8Encode(message)
        k == bytes_to_key(passcode, salt)
    IN  b64encode(PREFIX \o salt \o CbcEncrypt(k.key, k.iv, pad(msg)))

\* decrypt(auth_token, message): the bytes unpad returns, or its ValueError
decrypt(auth_token, message) ==
    LET passcode == passcode_from_token(auth_token)
        encrypted == b64decode(message)
        salt == SaltOf(encrypted)
        cypher == CypherOf(encrypted)
        k == bytes_to_key(passcode, salt)
    IN  unpad(CbcDecrypt(k.key, k.iv, cypher))

---------------------------------------------------------------------------
(* The inputs of encrypt and decrypt *)

\* longest message
MaxMsgLen == 17
\* the salts get_random_bytes may return are numbered 0..MaxSalt
MaxSalt == 1

\* "A", "é" and the two alternating
Patterns == {<<65>>, <<233>>, <<65, 233>>}

Messages ==
    {[i \in 1..n |-> p[((i - 1) % Len(p)) + 1]] : n \in 0..MaxMsgLen, p \in Patterns}

\* the decoded JWTs: the claim "token" is "t" or "té"
Tokens == {[token |-> <<116>>], [token |-> <<116, 233>>]}

\* get_random_bytes(8)
Salts == {[i \in 1..8 |-> (((s * 37) + 11) * i) % 256] : s \in 0..MaxSalt}

CipherInputs ==
    {[stage |-> "input", token |-> t, message |-> m,
      envelope |-> << >>, result |-> [ok |-> FALSE, bytes |-> << >>]] :
        t \in Tokens, m \in Messages}

\* the variables of the session
session_vars ==
    <<pc, outcome, error, file, content_cache, flushes, channel, sent,
      unanswered, chunk_info, book_chapter_meta, chapter_idx, part_no,
      page_content, merged_chapter_chunk_sizes, yielded, resp, rcvd, ret,
      loaded, described, session, earlier, served>>

InitCipher ==
    /\ SessionInit
    /\ ~file.exists
    /\ cipher \in CipherInputs

Encrypt ==
    /\ cipher.stage = "input"
    /\ \E salt \in Salts :
          cipher' = [cipher EXCEPT !.stage = "encrypted",
                                   !.envelope = encrypt(cipher.token, cipher.message, salt)]
    /\ UNCHANGED session_vars

Decrypt ==
    /\ cipher.stage = "encrypted"
    /\ cipher' = [cipher EXCEPT !.stage = "decrypted",
                                !.result = decrypt(cipher.token, cipher.envelope)]
    /\ UNCHANGED session_vars

NextCipher ==
    \/ Encrypt
    \/ Decrypt

SpecCipher == InitCipher /\ [][NextCipher]_vars

\* C14, as the claim states it: decrypt returns M, the message given to
\* encrypt, whatever the token, the message and the salt.
C14_RoundTripIsMessage ==
    cipher.stage = "decrypted" =>
        /\ cipher.result.ok
        /\ cipher.result.bytes = cipher.message

\* C14: decrypt returns the UTF-8 encoding of the message given to encrypt,
\* whatever the token, the message and the salt; and the envelope carries
\* the marker in bytes 0..8.
C14_RoundTripIsUtf8OfMessage ==
    /\ cipher.stage = "decrypted" =>
          /\ cipher.result.ok
          /\ cipher.result.bytes = Utf8Encode(cipher.message)
    /\ cipher.stage \in {"encrypted", "decrypted"} =>
          SubSeq(b64decode(cipher.envelope), 1, 8) = PREFIX

\* a message of more than one block with a character outside ASCII went
\* through encrypt and decrypt
C14_Witness ==
    /\ cipher.stage = "decrypted"
    /\ Len(cipher.message) > BLOCK_SIZE
    /\ \E i \in 1..Len(cipher.message) : cipher.message[i] > 127
    /\ cipher.result.ok

---------------------------------------------------------------------------
(* initialize alone, against a server that may wrap the description in     *)
(* more layers of JSON string and may send a chunk of its answer twice.    *)

\* most extra layers of JSON string around the description
MaxLayers == 2

\* the ways to send the messages of S one after the other, each at least
\* once and at most one of them twice
Redeliveries(S) ==
    {d \in UNION {[1..k -> S] : k \in {Cardinality(S), Cardinality(S) + 1}} :
        {d[i] : i \in 1..Len(d)} = S}

ServerAnswersInitialiseFreely ==
    /\ pc # "done"
    /\ unanswered > 0
    /\ OldestUnanswered.action = "initialise"
    /\ \E meta \in MetaSet, extra \in 0..MaxLayers, n \in 1..MaxChunks :
          \E pieces \in Splits(Encoded(meta, extra), n) :
             \E d \in Redeliveries(InitResponse(pieces)) :
                /\ described' = meta
                /\ channel' = channel \o [i \in 1..Len(d) |-> {d[i]}]
                /\ served' = [Faithful EXCEPT !.layers = extra,
                                              !.redelivered = (Len(d) > n)]
    /\ unanswered' = unanswered - 1
    /\ UNCHANGED <<pc, outcome, error, file, content_cache, flushes, sent,
                   chunk_info, book_chapter_meta, chapter_idx, part_no,
                   page_content, merged_chapter_chunk_sizes, yielded, resp,
                   rcvd, ret, loaded, session, earlier, cipher>>

NextInitialize ==
    \/ ReadCache
    \/ ConnectFails
    \/ InitializeSend
    \/ InitializeRecv
    \/ Cancel
    \/ ServerAnswersInitialiseFreely

\* fetch_contents is called and there is no chunks.dat
InitNoSnapshot ==
    /\ Init
    /\ ~file.exists

SpecInitialize == InitNoSnapshot /\ [][NextInitialize]_vars

\* the step is a turn of initialize's receive loop that took message m
InitTurn(m) ==
    /\ pc = "initialize"
    /\ m \in Receivable
    /\ unanswered' = unanswered
    /\ outcome' # "CancelledError"
    /\ channel' = AfterRecv(m) \/ pc' = "done"

\* C15: the turn of the loop that ends it is the first after which as many
\* distinct chunk numbers have been taken as the chunk declares, and what
\* initialize then parses is the contents in ascending chunk number order,
\* which gives the metadata the server described; a turn that takes a
\* chunk number taken before does not end the loop.
C15_InitializeCompletion ==
    [][pc = "initialize" =>
        /\ (pc' = "loop" \/ outcome' = "ValidationError") =>
              \E m \in Receivable :
                 /\ InitTurn(m)
                 /\ m.chunkNumber \notin DOMAIN chunk_info
                 /\ Cardinality(DOMAIN chunk_info) + 1 = m.numberOfChunks
                 /\ pc' = "loop" =>
                       /\ book_chapter_meta' = described
                       /\ book_chapter_meta' =
                            ParseBookChapterMetadata(
                               JoinSorted(Put(chunk_info, m.chunkNumber, m.content))).meta
        /\ (pc' = "initialize" /\ channel' # channel /\ unanswered' = unanswered) =>
              \E m \in Receivable :
                 /\ InitTurn(m)
                 /\ Cardinality(DOMAIN chunk_info \cup {m.chunkNumber}) < m.numberOfChunks
                 /\ DOMAIN chunk_info' = DOMAIN chunk_info \cup {m.chunkNumber}
        /\ \A m \in Receivable :
              (InitTurn(m) /\ Receivable = {m} /\ m.chunkNumber \in DOMAIN chunk_info) =>
                  /\ pc' = "initialize"
                  /\ DOMAIN chunk_info' = DOMAIN chunk_info
      ]_vars

\* initialize returned the described metadata after it had taken every
\* message of an answer in which one chunk came twice
C15_Witness ==
    /\ pc = "loop"
    /\ served.redelivered
    /\ channel = << >>
    /\ book_chapter_meta = described
    /\ described.hasBookMap

\* C19: initialize returns the described metadata when the payload is the
\* description itself and when it is the description in one extra layer
\* of JSON string; in two or more extra layers it raises, and it raises in
\* no other case.
C19_DoubleDecoding ==
    /\ pc = "loop" => (served.layers <= 1 /\ book_chapter_meta = described)
    /\ (pc = "done" /\ outcome = "ValidationError") => served.layers >= 2
    /\ served.layers = 1 =>
          ParseBookChapterMetadata(Encoded(described, 1))
             = ParseBookChapterMetadata(Encoded(described, 0))

\* initialize returned the metadata of a payload in one extra layer
C19_Witness ==
    /\ pc = "loop"
    /\ served.layers = 1
    /\ book_chapter_meta = described
    /\ described.hasBookMap

---------------------------------------------------------------------------
(* A session against a server that may, in one of its answers, declare     *)
(* another numberOfChunks than the number of chunks the answer holds.  It  *)
(* sends no merged groups.                                                 *)

\* what the server records when it declares d chunks in an answer of n
Recorded(n, d) ==
    IF d = n THEN served
    ELSE [Faithful EXCEPT !.excess = d - n, !.answer = Len(sent) - unanswered + 1]

\* the chunk messages of S, each declaring d chunks
Declaring(S, d) == {[m EXCEPT !.numberOfChunks = d] : m \in S}

ServerAnswersInitialiseMisreporting ==
    /\ pc # "done"
    /\ unanswered > 0
    /\ OldestUnanswered.action = "initialise"
    /\ \E meta \in MetaSet, n \in 1..MaxChunks, d \in 1..(MaxChunks + 1) :
          \E pieces \in Splits(Encoded(meta, 0), n) :
             /\ d # n => served = Faithful
             /\ described' = meta
             /\ channel' = Append(channel, Declaring(InitResponse(pieces), d))
             /\ served' = Recorded(n, d)
    /\ unanswered' = unanswered - 1
    /\ UNCHANGED <<pc, outcome, error, file, content_cache, flushes, sent,
                   chunk_info, book_chapter_meta, chapter_idx, part_no,
                   page_content, merged_chapter_chunk_sizes, yielded, resp,
                   rcvd, ret, loaded, session, earlier, cipher>>

ServerAnswersLoadPageMisreporting ==
    /\ pc # "done"
    /\ unanswered > 0
    /\ OldestUnanswered.action = "loadPage"
    /\ \E n \in 1..MaxChunks, d \in 1..(MaxChunks + 1) :
          LET S == Declaring(PlainResponse(OldestUnanswered.pageId,
                                           OldestUnanswered.mergedChapterPartIndex, n), d)
          IN  /\ d # n => served = Faithful
              /\ resp' = S
              /\ channel' = Append(channel, S)
              /\ served' = Recorded(n, d)
    /\ unanswered' = unanswered - 1
    /\ UNCHANGED <<pc, outcome, error, file, content_cache, flushes, sent,
                   chunk_info, book_chapter_meta, chapter_idx, part_no,
                   page_content, merged_chapter_chunk_sizes, yielded, rcvd,
                   ret, loaded, described, session, earlier, cipher>>

NextMisreport ==
    \/ Client
    \/ ServerAnswersInitialiseMisreporting
    \/ ServerAnswersLoadPageMisreporting

SpecMisreport == InitNoSnapshot /\ [][NextMisreport]_vars

\* the newest request is the initialise request, and its answer is the
\* one that declares another number of chunks than it holds
InitialiseMisreported ==
    /\ Len(sent) = 1
    /\ served.answer = 1

\* the initialise exchange has not ended by itself
InitialiseWaits ==
    /\ pc \in {"initialize", "done"}
    /\ outcome \in {"none", "CancelledError"}

\* the newest loadPage exchange has been answered and has read nothing but
\* messages of its own answer
OwnAnswerOnly ==
    /\ LoadPageRequests # {}
    /\ unanswered = 0
    /\ rcvd \subseteq resp

\* ... and its answer is the one that declares another number of chunks
\* than it holds
LoadPageMisreported ==
    /\ OwnAnswerOnly
    /\ served.answer = Len(sent)

\* the newest loadPage exchange has not ended by itself
LoadPageWaits ==
    /\ pc \in {"load_page", "done"}
    /\ outcome \in {"none", "CancelledError"}
    /\ ret = << >>

\* C16, as the claim states it: after an answer that declares fewer chunks
\* than it holds, the exchange never returns: the client waits, and no
\* truncated result comes back.
C16_UnderReportWaits ==
    /\ (served.excess < 0 /\ InitialiseMisreported) => pc \in {"initialize", "done"}
    /\ (served.excess < 0 /\ LoadPageMisreported) => ret = << >>

\* C16: after an answer that declares more chunks than it holds, the
\* exchange does not return and does not raise, and once it has read the
\* whole answer nothing is left for it to read: the client waits.  An
\* exchange that returns has read as many chunks as its answer declares:
\* fewer than the answer holds if it declares fewer.
C16_OverReportWaits ==
    /\ (served.excess > 0 /\ InitialiseMisreported) => InitialiseWaits
    /\ (served.excess > 0 /\ LoadPageMisreported) =>
          /\ LoadPageWaits
          /\ (pc = "load_page" /\ rcvd = resp) => channel = << >>
    /\ (ret # << >> /\ OwnAnswerOnly) =>
          \A m \in resp : Cardinality(rcvd) = m.numberOfChunks
    /\ (ret # << >> /\ LoadPageMisreported) =>
          Cardinality(rcvd) = Cardinality(resp) + served.excess

\* load_page has read every chunk of an answer that declares one more, after
\* an earlier unit was yielded, and waits at an empty socket
C16_Witness ==
    /\ served.excess > 0
    /\ LoadPageMisreported
    /\ pc = "load_page"
    /\ rcvd = resp
    /\ resp # {}
    /\ channel = << >>
    /\ unanswered = 0
    /\ Len(yielded) >= 1

---------------------------------------------------------------------------
(* The order of one session.                                               *)

\* the state of the session in the words of the state diagram
SessionState ==
    CASE pc \in {"start", "connect"} -> "Disconnected"
      [] pc = "initialize" -> "Initializing"
      [] pc = "loop" -> "Ready"
      [] pc = "load_page" -> "AwaitingUnit"
      [] pc = "done" -> "Closed"

\* the moves of the state diagram, and the end of the session from any state
SessionMoves ==
    {<<"Disconnected", "Disconnected">>, <<"Disconnected", "Initializing">>,
     <<"Initializing", "Initializing">>, <<"Initializing", "Ready">>,
     <<"Ready", "Ready">>, <<"Ready", "AwaitingUnit">>,
     <<"AwaitingUnit", "AwaitingUnit">>, <<"AwaitingUnit", "Ready">>}
    \cup {<<s, "Closed">> : s \in {"Disconnected", "Initializing", "Ready",
                                   "AwaitingUnit", "Closed"}}

\* C17: every step of a session is a move of the state diagram; a request
\* is sent only on entering Initializing (the initialise request, the first
\* message on the channel) or AwaitingUnit (a loadPage request); after every
\* step the requests sent are one initialise request followed by loadPage
\* requests only, and if a loadPage request has been sent then the
\* initialise exchange has completed: chunk_info is released and
\* book_chapter_meta is the metadata the server described.
C17_SessionOrder ==
    [][/\ <<SessionState, SessionState'>> \in SessionMoves
       /\ sent' # sent =>
            /\ \E req \in {InitCommand} \cup
                          {LoadPageCommand(p, i) : p \in 1..(MaxChapter + 1),
                                                   i \in 0..(MaxExtra + 1)} :
                  sent' = Append(sent, req)
            /\ \/ /\ SessionState = "Disconnected"
                  /\ SessionState' = "Initializing"
                  /\ sent = << >>
                  /\ sent'[1].action = "initialise"
               \/ /\ SessionState = "Ready"
                  /\ SessionState' = "AwaitingUnit"
                  /\ sent'[Len(sent')].action = "loadPage"
       /\ SessionState' \in {"Initializing", "Ready", "AwaitingUnit"} => sent' # << >>
       /\ \A j \in 1..Len(sent') : (sent'[j].action = "initialise") <=> (j = 1)
       /\ SessionState' \in {"Ready", "AwaitingUnit"} =>
            /\ chunk_info' = EmptyDict
            /\ book_chapter_meta' = described'
            /\ described' \in MetaSet
       /\ Len(sent') >= 2 =>
            /\ book_chapter_meta' = described'
            /\ described' \in MetaSet
      ]_vars

\* a session that went through every state: it sent the initialise request
\* first, then at least two loadPage requests, and ended normally
C17_Witness ==
    /\ pc = "done"
    /\ outcome = "ok"
    /\ Len(sent) >= 3
    /\ sent[1].action = "initialise"
    /\ Cardinality(LoadPageRequests) = Len(sent) - 1

---------------------------------------------------------------------------
(* The total carried by the yielded tuples.                                *)

\* C18: every tuple yielded carries the same total, the number of units of
\* the metadata, and a fetch that completes without error has yielded that
\* many tuples with that many distinct unit indices.
C18_TotalUnitsCountsUnits ==
    /\ \A i \in 1..Len(yielded) : yielded[i][3] = num_parts(book_chapter_meta)
    /\ (pc = "done" /\ outcome = "ok") =>
          /\ Len(yielded) = num_parts(book_chapter_meta)
          /\ Cardinality({yielded[i][1] : i \in 1..Len(yielded)})
                = num_parts(book_chapter_meta)

---------------------------------------------------------------------------
(* A session that is left to run: the socket opens, nobody cancels the     *)
(* task, and the server sends no error event and nothing unasked; it sends *)
(* every chunk of every group of each answer, which the channel delivers   *)
(* in any order within the answer and without loss.                        *)

\* the server sends the whole answer to the initialise request
ServerSendsInitialise ==
    /\ pc # "done"
    /\ unanswered > 0
    /\ OldestUnanswered.action = "initialise"
    /\ \E meta \in MetaSet :
          /\ described' = meta
          /\ \E S \in InitResponses(meta) : channel' = Append(channel, S)
    /\ unanswered' = unanswered - 1
    /\ UNCHANGED <<pc, outcome, error, file, content_cache, flushes, sent,
                   chunk_info, book_chapter_meta, chapter_idx, part_no,
                   page_content, merged_chapter_chunk_sizes, yielded, resp,
                   rcvd, ret, loaded>>
    /\ UNCHANGED aside

\* the server sends the whole answer S to the oldest loadPage request
SendLoadPage(S) ==
    /\ pc # "done"
    /\ resp' = S
    /\ channel' = Append(channel, S)
    /\ unanswered' = unanswered - 1
    /\ UNCHANGED <<pc, outcome, error, file, content_cache, flushes, sent,
                   chunk_info, book_chapter_meta, chapter_idx, part_no,
                   page_content, merged_chapter_chunk_sizes, yielded, rcvd,
                   ret, loaded, described>>
    /\ UNCHANGED aside

\* ... an answer of one group or of several merged groups
ServerSendsLoadPage ==
    /\ unanswered > 0
    /\ OldestUnanswered.action = "loadPage"
    /\ \E S \in PageResponses(OldestUnanswered.pageId,
                              OldestUnanswered.mergedChapterPartIndex) :
          SendLoadPage(S)

\* ... an answer of one group
ServerSendsLoadPageSingle ==
    /\ unanswered > 0
    /\ OldestUnanswered.action = "loadPage"
    /\ \E S \in SingleGroupResponses(OldestUnanswered.pageId,
                                     OldestUnanswered.mergedChapterPartIndex) :
          SendLoadPage(S)

\* the steps of a client that connects and is not cancelled
ClientRuns ==
    \/ ReadCache
    \/ InitializeSend
    \/ InitializeRecv
    \/ YieldCached
    \/ LoadPageSend
    \/ LoadPageRecv
    \/ FetchFinish

NextLive ==
    \/ ClientRuns
    \/ ServerSendsInitialise
    \/ ServerSendsLoadPage

\* the client can take a step: it is not awaiting a message, or a message
\* is there for it to receive
ClientCanRun ==
    \/ pc \in {"start", "connect", "loop"}
    \/ pc \in {"initialize", "load_page"} /\ Receivable # {}

\* the event loop resumes the client when it can take a step (weak fairness
\* of ClientRuns, with ClientCanRun for ENABLED <<ClientRuns>>_vars)
ClientScheduled ==
    \/ []<>(~ClientCanRun)
    \/ []<><<ClientRuns>>_vars

\* the client takes a step it can take, the server answers what it was asked
SpecLive ==
    /\ Init
    /\ [][NextLive]_vars
    /\ ClientScheduled
    /\ WF_vars(ServerSendsInitialise)
    /\ WF_vars(ServerSendsLoadPage)

NextLiveSingle ==
    \/ ClientRuns
    \/ ServerSendsInitialise
    \/ ServerSendsLoadPageSingle

\* the same against a server that never merges chapters
SpecLiveSingle ==
    /\ Init
    /\ [][NextLiveSingle]_vars
    /\ ClientScheduled
    /\ WF_vars(ServerSendsInitialise)
    /\ WF_vars(ServerSendsLoadPageSingle)

\* fetch_contents has ended normally, has yielded every unit of the metadata
\* and has written chunks.dat
Terminated ==
    /\ pc = "done"
    /\ outcome = "ok"
    /\ flushes = 1
    /\ file.exists
    /\ Len(yielded) = num_parts(described)

\* C20: the initialise exchange and every loadPage exchange eventually
\* complete, and fetch_contents eventually terminates having yielded every
\* unit and flushed the cache.
C20_Liveness ==
    /\ (pc = "initialize") ~> (pc = "loop")
    /\ (pc = "load_page") ~> (pc = "loop")
    /\ <>Terminated

---------------------------------------------------------------------------
(* What one unit's content is made of.                                     *)

\* the newest loadPage request
NewestRequest == sent[Len(sent)]

\* every fragment of text is a fragment of the text of the unit that the
\* newest loadPage request asks for
OwnFragments(text) ==
    \A i \in 1..Len(text) :
       /\ text[i][2] = NewestRequest.pageId
       /\ text[i][3] = NewestRequest.mergedChapterPartIndex

\* C21: every chunk message that a loadPage exchange accumulates carries
\* fragments of the unit it asked for, and so does the text that load_page
\* returns, which fetch_contents caches and yields under that unit's index.
C21_CrossUnitIsolation ==
    LoadPageRequests # {} =>
       /\ \A m \in rcvd : OwnFragments(m.content)
       /\ ret # << >> =>
             /\ OwnFragments(ret[1])
             /\ content_cache[RequestIndex(NewestRequest)] = ret[1]
             /\ \E i \in 1..Len(yielded) :
                   /\ yielded[i][1] = RequestIndex(NewestRequest)
                   /\ yielded[i][2] = ret[1]

---------------------------------------------------------------------------
(* How the in-memory cache changes during a session.                       *)

\* cache a is kept in cache b: every entry of a is an entry of b
KeptIn(a, b) ==
    \A k \in DOMAIN a : k \in DOMAIN b /\ b[k] = a[k]

\* C22: every step keeps every entry of content_cache, and after it the
\* cache holds every entry read from the snapshot.  Only reading the
\* snapshot and the return of load_page change the cache; the return of
\* load_page adds exactly the entry of the unit asked for, whose index the
\* cache did not hold.  No two loadPage requests of a session are for the
\* same index, so no index is written twice.  A step that yields appends
\* one tuple, whose text is the text the cache holds for its index.
C22_CacheMonotone ==
    [][/\ KeptIn(content_cache, content_cache')
       /\ pc' # "start" => KeptIn(loaded', content_cache')
       /\ content_cache' # content_cache =>
            \/ /\ pc = "start"
               /\ content_cache' = loaded'
            \/ /\ pc = "load_page"
               /\ pc' = "loop"
               /\ RequestIndex(NewestRequest) \notin DOMAIN content_cache
               /\ DOMAIN content_cache' =
                     DOMAIN content_cache \cup {RequestIndex(NewestRequest)}
               /\ content_cache'[RequestIndex(NewestRequest)] = ret'[1]
       /\ (pc = "load_page" /\ pc' = "loop") => content_cache' # content_cache
       /\ \A i, j \in LoadPageRequests' :
             RequestIndex(sent'[i]) = RequestIndex(sent'[j]) => i = j
       /\ yielded' # yielded =>
            /\ Len(yielded') = Len(yielded) + 1
            /\ SubSeq(yielded', 1, Len(yielded)) = yielded
            /\ yielded'[Len(yielded')][1] \in DOMAIN content_cache'
            /\ yielded'[Len(yielded')][2] =
                  content_cache'[yielded'[Len(yielded')][1]]
      ]_vars

\* a session that read a snapshot, yielded a unit from it, fetched another
\* unit and ended normally
C22_Witness ==
    /\ pc = "done"
    /\ outcome = "ok"
    /\ DOMAIN loaded # {}
    /\ LoadPageRequests # {}
    /\ \E i \in 1..Len(yielded) : yielded[i][1] \in DOMAIN loaded
    /\ DOMAIN content_cache # DOMAIN loaded

=============================================================================
